---- MODULE Spec2Model ----
(***************************************************************************)
(* Model of BWAIShotgun's BWAPI glue (src/src/bwapi.rs):                   *)
(*   - GameTableAccess: lazily attached view of BWAPI's shared game table  *)
(*   - BwapiVersion::from_u32: checksum -> BWAPI version                   *)
(*   - BwapiLanMode deserialisation and display                            *)
(*   - BwapiIni::write: generation of BWAPI.ini                            *)
(* Option<T> is modelled as a sequence of length <= 1: None is <<>> and    *)
(* Some(x) is <<x>>.  Result<(), E> is <<"Ok">> or <<"Err", e>>.           *)
(***************************************************************************)
EXTENDS Integers, Sequences, FiniteSets, TLC

VARIABLES
    producerOpen,   \* the external producer (BWAPI) holds the shared segment open
    table,          \* contents of the shared segment: slot index -> GameInstance
    game_table,     \* GameTableAccess.game_table : Option<Shmem>
    last,           \* observation of the most recent GameTableAccess call
    dirty,          \* the producer wrote to the table since the most recent call
    poll,           \* a caller that calls has_free_slot and all_slots_filled in turn
    crc,            \* argument of the most recent from_u32 call
    version,        \* its result : Option<BwapiVersion>
    lanInput,       \* text handed to BwapiLanMode::deserialize
    lanResult,      \* its result
    ini,            \* the BwapiIni most recently written
    dest,           \* behaviour of the destination of that write
    out,            \* what reached the destination: lines written, writes attempted
    wres            \* result of that write

vars == <<producerOpen, table, game_table, last, dirty, poll, crc, version,
          lanInput, lanResult, ini, dest, out, wres>>

tableVars   == <<producerOpen, table, game_table, last, dirty, poll>>
versionVars == <<crc, version>>
lanVars     == <<lanInput, lanResult>>
iniVars     == <<ini, dest, out, wres>>

None == <<>>
Some(x) == <<x>>

(***************************************************************************)
(* GameInstance, GameTable                                                 *)
(***************************************************************************)
NumSlots == 8

Slots == 1..NumSlots

\* A process id the producer stores in slot i; any non-zero u32 behaves alike.
PidOf(i) == 1000 + i

\* last_keep_alive_time is never read by the modelled operations and is left out.
GameInstance(pid, connected) == [server_process_id |-> pid, is_connected |-> connected]

EmptySlot == GameInstance(0, FALSE)

EmptyTable == [i \in Slots |-> EmptySlot]

(***************************************************************************)
(* GameTableAccess                                                         *)
(***************************************************************************)
new == [game_table |-> None]

\* The named mapping object exists while any process holds a handle to it
\* (the os_id is in the Windows Local\ namespace).
SegmentExists(prodOpen, handle) == prodOpen \/ handle # None

\* ShmemConf::open(): Ok(handle) iff the named segment exists; .ok() drops the error.
OpenShmem(exists) == IF exists THEN Some("Shmem") ELSE None

get_game_table_reopen(handle, prodOpen, mem) ==
    LET h == OpenShmem(SegmentExists(prodOpen, None))
    IN  [game_table |-> h,
         opened     |-> TRUE,
         ret        |-> IF h = None THEN None ELSE Some(mem)]

\* get_game_table(&mut self): the new handle, whether open() was called,
\* and the returned Option<GameTable> (a copy of the mapped memory).
get_game_table(handle, prodOpen, mem) ==
    LET opened == handle = None
        h      == IF opened THEN OpenShmem(SegmentExists(prodOpen, handle)) ELSE handle
    IN  [game_table |-> h,
         opened     |-> opened,
         ret        |-> IF h = None THEN None ELSE Some(mem)]

\* |it| it.server_process_id != 0 && !it.is_connected
IsReserved(it) == it.server_process_id # 0 /\ ~it.is_connected

AnyReserved(t) == \E i \in Slots : IsReserved(t[i])

all_slots_filled_vacuous(handle, prodOpen, mem) ==
    LET g == get_game_table(handle, prodOpen, mem)
    IN  [game_table |-> g.game_table,
         opened     |-> g.opened,
         present    |-> g.ret # None,
         ret        |-> IF g.ret = None THEN TRUE ELSE ~AnyReserved(g.ret[1])]

all_slots_filled(handle, prodOpen, mem) ==
    LET g == get_game_table(handle, prodOpen, mem)
    IN  [game_table |-> g.game_table,
         opened     |-> g.opened,
         present    |-> g.ret # None,
         ret        |-> IF g.ret = None THEN FALSE ELSE ~AnyReserved(g.ret[1])]

has_free_slot_any_pid(handle, prodOpen, mem) ==
    LET g == get_game_table(handle, prodOpen, mem)
    IN  [game_table |-> g.game_table,
         opened     |-> g.opened,
         present    |-> g.ret # None,
         ret        |-> IF g.ret = None THEN FALSE
                        ELSE \E i \in Slots : g.ret[1][i].server_process_id # 0]

has_free_slot_empty(handle, prodOpen, mem) ==
    LET g == get_game_table(handle, prodOpen, mem)
    IN  [game_table |-> g.game_table,
         opened     |-> g.opened,
         present    |-> g.ret # None,
         ret        |-> IF g.ret = None THEN FALSE
                        ELSE \E i \in Slots : ~g.ret[1][i].is_connected]

has_free_slot(handle, prodOpen, mem) ==
    LET g == get_game_table(handle, prodOpen, mem)
    IN  [game_table |-> g.game_table,
         opened     |-> g.opened,
         present    |-> g.ret # None,
         ret        |-> IF g.ret = None THEN FALSE ELSE AnyReserved(g.ret[1])]

NotCalled == [called |-> FALSE]

Returned(r) == [called |-> TRUE, ret |-> r]

(***************************************************************************)
(* BwapiVersion.  TLC's integers are 32-bit signed, so a u32 is kept as    *)
(* its two 16-bit halves: U32(hi, lo) stands for hi * 2^16 + lo.           *)
(***************************************************************************)
U32(hi, lo) == <<hi, lo>>

from_u32_noalias(c) ==
    CASE c = U32(\H71CB, \H208B) -> Some("Bwapi440")
      [] c = U32(\HD1E0, \HDDDF) -> Some("Bwapi420")
      [] c = U32(\H267B, \HD0D5) -> Some("Bwapi412")
      [] c = U32(\H4E39, \HC88A) -> Some("Bwapi375")
      [] OTHER -> None

from_u32(c) ==
    CASE c = U32(\H71CB, \H208B) -> Some("Bwapi440")
      [] c = U32(\HD1E0, \HDDDF) -> Some("Bwapi420")
      [] c = U32(\H267B, \HD0D5) -> Some("Bwapi412")
      [] c = U32(\H4E39, \HC88A) -> Some("Bwapi375")
      [] c = U32(\H4112, \H8276) -> Some("Bwapi375")
      [] OTHER -> None

FromU32 ==
    /\ version' = Returned(from_u32(crc))
    /\ UNCHANGED <<crc, tableVars, lanVars, iniVars>>

(***************************************************************************)
(* BwapiLanMode.  A text is a sequence of one-character strings.           *)
(***************************************************************************)
UpperCase == <<"A","B","C","D","E","F","G","H","I","J","K","L","M",
               "N","O","P","Q","R","S","T","U","V","W","X","Y","Z">>

LowerCase == <<"a","b","c","d","e","f","g","h","i","j","k","l","m",
               "n","o","p","q","r","s","t","u","v","w","x","y","z">>

char_to_lowercase(c) ==
    IF \E i \in 1..Len(UpperCase) : UpperCase[i] = c
    THEN LowerCase[CHOOSE i \in 1..Len(UpperCase) : UpperCase[i] = c]
    ELSE c

\* str::to_lowercase, on the characters the model draws from
to_lowercase(t) == [i \in 1..Len(t) |-> char_to_lowercase(t[i])]

\* What the deserializer holds: a string, or a value of another type.
Str(t) == [isStr |-> TRUE, text |-> t]

NotAStr == [isStr |-> FALSE]

Txt_u == <<"u">>

Txt_p == <<"p">>

Txt_localareanetworkudp ==
    <<"l","o","c","a","l","a","r","e","a","n","e","t","w","o","r","k","u","d","p">>

Txt_localpc == <<"l","o","c","a","l","p","c">>

\* <BwapiLanMode as Deserialize>::deserialize
deserialize(d) ==
    IF ~d.isStr THEN <<"Err", "invalid_type">>
    ELSE LET x == to_lowercase(d.text)
         IN  CASE x = Txt_u \/ x = Txt_localareanetworkudp -> <<"Ok", "LocalAreaNetworkUDP">>
               [] x = Txt_p \/ x = Txt_localpc -> <<"Ok", "LocalPC">>
               [] OTHER -> <<"Err", "invalid_value", x>>

\* <BwapiLanMode as Display>::fmt
DisplayLanMode(m) ==
    CASE m = "LocalAreaNetworkUDP" -> "Local Area Network (UDP)"
      [] m = "LocalPC" -> "Local PC"

Deserialize ==
    /\ lanResult' = Returned(deserialize(lanInput))
    /\ UNCHANGED <<lanInput, tableVars, versionVars, iniVars>>

(***************************************************************************)
(* Calls of GameTableAccess.  Each call is one step: the copy it takes of  *)
(* the mapped memory is the table at that step.  A copy torn by concurrent *)
(* producer writes mixes slot values of successive tables; every such      *)
(* mixture is itself one of the tables the producer can leave in memory,   *)
(* and all of those are read here.                                         *)
(***************************************************************************)
NoCall == [op |-> "none", wasAttached |-> FALSE, opened |-> FALSE,
           present |-> FALSE, ret |-> FALSE]

NoPoll == [pc |-> "idle", first |-> "none", has |-> FALSE, filled |-> FALSE,
           moved |-> FALSE]

Observe(op, r) ==
    /\ game_table' = r.game_table
    /\ last' = [op |-> op, wasAttached |-> game_table # None, opened |-> r.opened,
                present |-> r.present, ret |-> r.ret]
    /\ dirty' = FALSE

GetGameTable ==
    LET g == get_game_table(game_table, producerOpen, table)
    IN  /\ Observe("get_game_table",
                   [game_table |-> g.game_table, opened |-> g.opened,
                    present |-> g.ret # None, ret |-> g.ret # None])
        /\ UNCHANGED <<producerOpen, table, poll, versionVars, lanVars, iniVars>>

HasFreeSlot ==
    /\ Observe("has_free_slot", has_free_slot(game_table, producerOpen, table))
    /\ UNCHANGED <<producerOpen, table, poll, versionVars, lanVars, iniVars>>

AllSlotsFilled ==
    /\ Observe("all_slots_filled", all_slots_filled(game_table, producerOpen, table))
    /\ UNCHANGED <<producerOpen, table, poll, versionVars, lanVars, iniVars>>

(***************************************************************************)
(* The external producer.  It alone writes the table; slots go             *)
(* empty -> reserved -> connected, and back to empty when a game exits.    *)
(***************************************************************************)
ProducerWrites(t) ==
    /\ table' = t
    /\ dirty' = (dirty \/ t # table)
    /\ UNCHANGED <<game_table, last, poll, versionVars, lanVars, iniVars>>

ProducerCreate ==
    /\ ~producerOpen
    /\ producerOpen' = TRUE
    /\ ProducerWrites(IF SegmentExists(producerOpen, game_table) THEN table ELSE EmptyTable)

ProducerDestroy ==
    /\ producerOpen
    /\ producerOpen' = FALSE
    /\ ProducerWrites(IF SegmentExists(FALSE, game_table) THEN table ELSE EmptyTable)

ProducerReserve(i) ==
    /\ producerOpen
    /\ table[i].server_process_id = 0
    /\ ProducerWrites([table EXCEPT ![i] = GameInstance(PidOf(i), FALSE)])
    /\ UNCHANGED producerOpen

ProducerConnect(i) ==
    /\ producerOpen
    /\ IsReserved(table[i])
    /\ ProducerWrites([table EXCEPT ![i] = GameInstance(PidOf(i), TRUE)])
    /\ UNCHANGED producerOpen

ProducerRelease(i) ==
    /\ producerOpen
    /\ table[i].server_process_id # 0
    /\ ProducerWrites([table EXCEPT ![i] = EmptySlot])
    /\ UNCHANGED producerOpen

Producer ==
    \/ ProducerCreate
    \/ ProducerDestroy
    \/ \E i \in Slots : ProducerReserve(i)
    \/ \E i \in Slots : ProducerConnect(i)
    \/ \E i \in Slots : ProducerRelease(i)

(***************************************************************************)
(* A caller polling both predicates, one call after the other, each call   *)
(* taking its own snapshot; the producer may run between the two calls.    *)
(***************************************************************************)
Other(op) == IF op = "has_free_slot" THEN "all_slots_filled" ELSE "has_free_slot"

CallByName(op) ==
    IF op = "has_free_slot" THEN has_free_slot(game_table, producerOpen, table)
    ELSE all_slots_filled(game_table, producerOpen, table)

PollCall(op, pc, first) ==
    LET r == CallByName(op)
    IN  /\ game_table' = r.game_table
        /\ poll' = [pc     |-> pc,
                    first  |-> first,
                    has    |-> IF op = "has_free_slot" THEN r.ret ELSE poll.has,
                    filled |-> IF op = "all_slots_filled" THEN r.ret ELSE poll.filled,
                    moved  |-> IF pc = "done" THEN dirty ELSE FALSE]
        /\ dirty' = FALSE
        /\ UNCHANGED <<producerOpen, table, last, versionVars, lanVars, iniVars>>

PollFirst(op) ==
    /\ poll.pc = "idle"
    /\ PollCall(op, "between", op)

PollSecond ==
    /\ poll.pc = "between"
    /\ PollCall(Other(poll.first), "done", poll.first)

PollReset ==
    /\ poll.pc = "done"
    /\ poll' = NoPoll
    /\ UNCHANGED <<producerOpen, table, game_table, last, dirty,
                   versionVars, lanVars, iniVars>>

(***************************************************************************)
(* BwapiIni.  A line of the document is a section header or a key/value    *)
(* line; sep keeps the separator the format string writes ("=" or " = ").  *)
(* Names, paths and map names are single-line texts.                       *)
(***************************************************************************)
Section(name) == [kind |-> "section", key |-> name, sep |-> "", value |-> ""]

KV(key, sep, value) == [kind |-> "kv", key |-> key, sep |-> sep, value |-> value]

\* The text of a line as writeln! formats it (without the line break).
Text(l) == IF l.kind = "section" THEN "[" \o l.key \o "]" ELSE l.key \o l.sep \o l.value

Host(map, player_count) == [tag |-> "Host", map |-> map, player_count |-> player_count]

Join == [tag |-> "Join"]

Unused == [tag |-> "Unused"]

AutoMenu(name, race, game_name, connect_mode, lan_mode) ==
    [tag |-> "AutoMenu", name |-> name, race |-> race, game_name |-> game_name,
     connect_mode |-> connect_mode, lan_mode |-> lan_mode]

BwapiIni(ai_module, tm_module, game_speed, sound, auto_menu) ==
    [ai_module |-> ai_module, tm_module |-> tm_module, game_speed |-> game_speed,
     sound |-> sound, auto_menu |-> auto_menu]

\* #[derive(Default)] with AutoMenu::default() == Unused
DefaultIni == BwapiIni("", None, 0, FALSE, Unused)

\* Display of crate::Race, which is defined outside bwapi.rs
DisplayRace(r) ==
    CASE r = "RaceTerran" -> "Terran"
      [] r = "RaceZerg" -> "Zerg"

ReplayLine ==
    KV("save_replay", " = ",
       "replays/$Y $b $d/%MAP%_%BOTRACE%%ALLYRACES%vs%ENEMYRACES%_$H$M$S.rep")

HostStmts_range(map, player_count) ==
    (IF map # None THEN <<KV("map", "=", map[1])>> ELSE <<>>)
    \o <<KV("wait_for_min_players", "=", ToString(player_count)),
         KV("wait_for_max_players", "=", ToString(player_count + 1))>>

\* the BwapiConnectMode::Host arm
HostStmts(map, player_count) ==
    (IF map # None THEN <<KV("map", "=", map[1])>> ELSE <<>>)
    \o <<KV("wait_for_min_players", "=", ToString(player_count)),
         KV("wait_for_max_players", "=", ToString(player_count))>>

ConnectStmts(am) ==
    IF am.connect_mode.tag = "Host"
    THEN HostStmts(am.connect_mode.map, am.connect_mode.player_count)
    ELSE <<KV("game", "=", am.game_name)>>

AutoMenuStmts_off(am) ==
    IF am.tag = "Unused" THEN <<KV("auto_menu", "=", "OFF")>>
    ELSE <<KV("auto_menu", "=", "LAN"),
           KV("lan_mode", "=", DisplayLanMode(am.lan_mode)),
           KV("character_name", "=", am.name),
           KV("race", "=", DisplayRace(am.race))>>
         \o ConnectStmts(am)

\* match &self.auto_menu
AutoMenuStmts(am) ==
    IF am.tag = "Unused" THEN <<>>
    ELSE <<KV("auto_menu", "=", "LAN"),
           KV("lan_mode", "=", DisplayLanMode(am.lan_mode)),
           KV("character_name", "=", am.name),
           KV("race", "=", DisplayRace(am.race))>>
         \o ConnectStmts(am)

SoundText_inverted(sound) == IF sound THEN "OFF" ELSE "ON"

SoundText(sound) == IF sound THEN "ON" ELSE "OFF"

\* The writeln! statements write() executes, in order, when none of them fails.
WriteStmts(self) ==
    <<Section("ai"), KV("ai", " = ", self.ai_module)>>
    \o (IF self.tm_module # None
        THEN <<KV("tournament", " = ", self.tm_module[1])>> ELSE <<>>)
    \o <<Section("auto_menu")>>
    \o AutoMenuStmts(self.auto_menu)
    \o <<ReplayLine,
         Section("starcraft"),
         KV("speed_override", " = ", ToString(self.game_speed)),
         KV("sound", " = ", SoundText(self.sound))>>

\* The destination (impl Write): its failAt-th writeln fails with err, every
\* other one succeeds; failAt = 0 never fails.  Errors of kind Interrupted are
\* retried inside write_all and are not among the errors a writeln returns.
NeverFails == [failAt |-> 0, err |-> "BrokenPipe"]

EmptyOut == [lines |-> <<>>, attempts |-> 0]

writeln(o, line, d) ==
    IF d.failAt = o.attempts + 1
    THEN [out |-> [o EXCEPT !.attempts = @ + 1], res |-> <<"Err", d.err>>]
    ELSE [out |-> [lines |-> Append(o.lines, line), attempts |-> o.attempts + 1],
          res |-> <<"Ok">>]

RECURSIVE write_all_unchecked(_, _, _)
write_all_unchecked(stmts, o, d) ==
    IF stmts = <<>> THEN [out |-> o, res |-> <<"Ok">>]
    ELSE write_all_unchecked(Tail(stmts), writeln(o, Head(stmts), d).out, d)

\* writeln!(..)? for each statement: the first Err is returned at once.
RECURSIVE write_all(_, _, _)
write_all(stmts, o, d) ==
    IF stmts = <<>> THEN [out |-> o, res |-> <<"Ok">>]
    ELSE LET r == writeln(o, Head(stmts), d)
         IN  IF r.res[1] = "Err" THEN r
             ELSE write_all(Tail(stmts), r.out, d)

write_ignoring_errors(self, o, d) == write_all_unchecked(WriteStmts(self), o, d)

\* BwapiIni::write(&self, out)
write(self, o, d) == write_all(WriteStmts(self), o, d)

Write ==
    LET r == write(ini, EmptyOut, dest)
    IN  /\ out' = r.out
        /\ wres' = Returned(r.res)
        /\ UNCHANGED <<ini, dest, tableVars, versionVars, lanVars>>

(***************************************************************************)
(* Inputs                                                                  *)
(***************************************************************************)
MaxDelta == 4

MaxLen == 3

MaxFailAt == 15

Deltas == (0 - MaxDelta)..MaxDelta

KnownCrcs ==
    {U32(\H71CB, \H208B), U32(\HD1E0, \HDDDF), U32(\H267B, \HD0D5),
     U32(\H4E39, \HC88A), U32(\H4112, \H8276)}

\* the known checksums and the values around them, in either half
CrcInputs ==
    {U32((c[1] + dh) % 65536, (c[2] + dl) % 65536) :
        c \in KnownCrcs \cup {U32(0, 0), U32(65535, 65535)}, dh \in Deltas, dl \in Deltas}

Alphabet == {"u", "U", "p", "P", "x", "X"}

Mixed_LocalAreaNetworkUDP ==
    <<"L","o","c","a","l","A","r","e","a","N","e","t","w","o","r","k","U","D","P">>

Upper_LOCALAREANETWORKUDP ==
    <<"L","O","C","A","L","A","R","E","A","N","E","T","W","O","R","K","U","D","P">>

LanInputs ==
    {Str(t) : t \in UNION {[1..n -> Alphabet] : n \in 0..MaxLen}}
    \cup {Str(Txt_localareanetworkudp), Str(Mixed_LocalAreaNetworkUDP),
          Str(Upper_LOCALAREANETWORKUDP),
          Str(Txt_localpc), Str(<<"L","o","c","a","l","P","C">>),
          Str(<<"L","O","C","A","L","P","C">>),
          Str(<<"L","o","c","a","l"," ","P","C">>),
          Str(<<"L","o","c","a","l","T","C","P">>),
          Str(<<"l","o","c","a","l","p","c","x">>),
          NotAStr}

ConnectModes ==
    {Join} \cup {Host(m, n) : m \in {None, Some("(2)Destination.scx")}, n \in {2, 8}}

AutoMenus ==
    {Unused} \cup
    {AutoMenu("MyBot", r, g, c, l) :
        r \in {"RaceTerran", "RaceZerg"}, g \in {"BWAISHOTGUN", "Lobby"},
        c \in ConnectModes, l \in {"LocalAreaNetworkUDP", "LocalPC"}}

Inis ==
    {BwapiIni(a, t, g, s, am) :
        a \in {"", "bots/MyBot/MyBot.dll"}, t \in {None, Some("bwapi-data/TM.dll")},
        g \in {0, 0 - 1}, s \in BOOLEAN, am \in AutoMenus}

Dests == {[failAt |-> n, err |-> e] : n \in 0..MaxFailAt, e \in {"BrokenPipe", "StorageFull"}}

TableInit ==
    /\ producerOpen = FALSE
    /\ table = EmptyTable
    /\ game_table = new.game_table
    /\ last = NoCall
    /\ dirty = FALSE
    /\ poll = NoPoll

VersionIdle == crc = U32(0, 0) /\ version = NotCalled

LanIdle == lanInput = Str(<<>>) /\ lanResult = NotCalled

IniIdle ==
    /\ ini = DefaultIni
    /\ dest = NeverFails
    /\ out = EmptyOut
    /\ wres = NotCalled

Init == TableInit /\ VersionIdle /\ LanIdle /\ IniIdle

Next ==
    \/ Producer
    \/ GetGameTable
    \/ HasFreeSlot
    \/ AllSlotsFilled

Spec == Init /\ [][Next]_vars

NextPoll ==
    \/ Producer
    \/ PollFirst("has_free_slot")
    \/ PollFirst("all_slots_filled")
    \/ PollSecond
    \/ PollReset

SpecPoll == Init /\ [][NextPoll]_vars

InitVersion == TableInit /\ crc \in CrcInputs /\ version = NotCalled /\ LanIdle /\ IniIdle

SpecVersion == InitVersion /\ [][FromU32]_vars

InitLan == TableInit /\ VersionIdle /\ lanInput \in LanInputs /\ lanResult = NotCalled /\ IniIdle

SpecLan == InitLan /\ [][Deserialize]_vars

InitIni ==
    /\ TableInit /\ VersionIdle /\ LanIdle
    /\ ini \in Inis
    /\ dest \in Dests
    /\ out = EmptyOut
    /\ wres = NotCalled

NextIni ==
    \/ Write
    \/ ProducerCreate
    \/ GetGameTable

SpecIni == InitIni /\ [][NextIni]_vars

(***************************************************************************)
(* Properties of GameTableAccess                                           *)
(***************************************************************************)
\* k of the claims: the number of slots with server_process_id != 0 and
\* is_connected == false.
ReservedCount(t) ==
    Cardinality({i \in Slots : t[i].server_process_id # 0 /\ t[i].is_connected = FALSE})

\* The state right after a call of op: the producer has not written since.
JustCalled(op) == last.op = op /\ ~dirty

\* C1: has_free_slot() returns true iff the table can be read (the handle is
\* attached) and at least one of the 8 slots is reserved; with exactly k
\* reserved slots on a readable table the result is (k > 0), and on an
\* unreadable table it is false.
C1_HasFreeSlot ==
    JustCalled("has_free_slot") =>
        /\ last.present = (game_table # None)
        /\ last.ret = (game_table # None /\ ReservedCount(table) > 0)

C1_Witness ==
    /\ JustCalled("has_free_slot")
    /\ last.ret
    /\ ReservedCount(table) = 3
    /\ \E i \in Slots : table[i] = EmptySlot
    /\ \E i \in Slots : table[i].is_connected

\* C2: all_slots_filled() returns true iff the table can be read and no slot
\* is reserved; a readable table of 8 empty slots yields true, an unreadable
\* table yields false.
C2_AllSlotsFilled ==
    JustCalled("all_slots_filled") =>
        /\ last.present = (game_table # None)
        /\ last.ret = (game_table # None /\ ReservedCount(table) = 0)

C2_Witness ==
    /\ JustCalled("all_slots_filled")
    /\ last.ret
    /\ game_table # None
    /\ table = EmptyTable

\* What C3 says of one call, read off the observation of that call.
C3_Call ==
    last.op # "none" =>
        /\ ~last.wasAttached => last.opened
        /\ last.wasAttached => (~last.opened /\ last.present)
        /\ last.present = (game_table # None)

\* C3: while no open of the segment has succeeded every call attempts an
\* open; once an open has succeeded the handle is kept for ever, no call
\* opens again and every call reads a present table, whatever the producer
\* does with the segment.
C3_AttachOnce ==
    [][(game_table # None => game_table' = game_table) /\ C3_Call']_vars

C3_Witness ==
    /\ last.op = "get_game_table"
    /\ ~dirty
    /\ last.wasAttached
    /\ last.present
    /\ ~producerOpen

\* C10 as claimed: whatever the producer does between the two calls, the
\* caller never gets true from both has_free_slot and all_slots_filled.
C10_NeverBothTrue ==
    poll.pc = "done" => ~(poll.has /\ poll.filled)

\* C10 as amended: when the producer makes no slot transition between the
\* two calls, the two results are never both true.
C10_NeverBothTrueSameTable ==
    (poll.pc = "done" /\ ~poll.moved) => ~(poll.has /\ poll.filled)

C10_Witness ==
    /\ poll.pc = "done"
    /\ ~poll.moved
    /\ poll.has
    /\ ~poll.filled
    /\ poll.first = "all_slots_filled"

(***************************************************************************)
(* Properties of BwapiVersion::from_u32                                    *)
(***************************************************************************)
\* C7: from_u32 yields Bwapi375 for 0x4E39C88A and 0x41128276, Bwapi412 for
\* 0x267BD0D5, Bwapi420 for 0xD1E0DDDF, Bwapi440 for 0x71CB208B, and None for
\* every other value.
C7_FromU32 ==
    version.called =>
        version.ret =
            IF crc \in {U32(20025, 51338), U32(16658, 33398)} THEN Some("Bwapi375")
            ELSE IF crc = U32(9851, 53461) THEN Some("Bwapi412")
            ELSE IF crc = U32(53728, 56799) THEN Some("Bwapi420")
            ELSE IF crc = U32(29131, 8331) THEN Some("Bwapi440")
            ELSE None

C7_Witness ==
    /\ version.called
    /\ crc = U32(16658, 33398)
    /\ version.ret = Some("Bwapi375")

(***************************************************************************)
(* Properties of BwapiLanMode deserialisation                              *)
(***************************************************************************)
\* C8: a text whose lowercase form is u or localareanetworkudp parses to the
\* UDP mode, one whose lowercase form is p or localpc parses to LocalPC, and
\* every other text fails with an error carrying the text as supplied.
C8_ParseOrReportInput ==
    (lanResult.called /\ lanInput.isStr) =>
        LET x == to_lowercase(lanInput.text)
        IN  lanResult.ret =
                IF x \in {Txt_u, Txt_localareanetworkudp} THEN <<"Ok", "LocalAreaNetworkUDP">>
                ELSE IF x \in {Txt_p, Txt_localpc} THEN <<"Ok", "LocalPC">>
                ELSE <<"Err", "invalid_value", lanInput.text>>

(***************************************************************************)
(* Properties of BwapiIni::write                                           *)
(***************************************************************************)
Texts(lines) == [i \in 1..Len(lines) |-> Text(lines[i])]

\* a occurs in b in order, not necessarily contiguously
RECURSIVE IsSubseq(_, _)
IsSubseq(a, b) ==
    IF a = <<>> THEN TRUE
    ELSE IF b = <<>> THEN FALSE
    ELSE IF Head(a) = Head(b) THEN IsSubseq(Tail(a), Tail(b))
    ELSE IsSubseq(a, Tail(b))

IsSectionLine(l) == l.kind = "section"

WriteOk == wres.called /\ wres.ret = <<"Ok">>

\* a line whose text starts with key followed by "="
IsKeyLine(l, key) == l.kind = "kv" /\ l.key = key /\ l.sep = "="

HasKeyLine(lines, key) == \E i \in 1..Len(lines) : IsKeyLine(lines[i], key)

\* [ai], [auto_menu], the replay line, [starcraft], in this order, and no
\* other section header
SectionOrder(lines) ==
    /\ IsSubseq(<<Section("ai"), Section("auto_menu"), ReplayLine, Section("starcraft")>>, lines)
    /\ SelectSeq(lines, IsSectionLine) =
           <<Section("ai"), Section("auto_menu"), Section("starcraft")>>

IsScenario(i) ==
    /\ i.auto_menu.tag = "AutoMenu"
    /\ i.auto_menu.name = "MyBot"
    /\ i.auto_menu.race = "RaceTerran"
    /\ i.auto_menu.connect_mode = Host(Some("(2)Destination.scx"), 2)
    /\ i.auto_menu.lan_mode = "LocalAreaNetworkUDP"
    /\ i.game_speed = 0
    /\ i.sound = FALSE

ScenarioHead(path) ==
    <<"ai = " \o path, "[auto_menu]", "auto_menu=LAN",
      "lan_mode=Local Area Network (UDP)", "character_name=MyBot", "race=Terran",
      "map=(2)Destination.scx", "wait_for_min_players=2", "wait_for_max_players=2",
      "save_replay = replays/$Y $b $d/%MAP%_%BOTRACE%%ALLYRACES%vs%ENEMYRACES%_$H$M$S.rep",
      "[starcraft]">>

\* C4 as claimed: the scenario's document contains, in order, the listed
\* lines ending with speed_override=0 and sound=OFF, and every document has
\* its sections in the fixed order.
C4_ScenarioAsClaimed ==
    WriteOk =>
        /\ SectionOrder(out.lines)
        /\ IsScenario(ini) =>
               IsSubseq(ScenarioHead(ini.ai_module) \o <<"speed_override=0", "sound=OFF">>,
                        Texts(out.lines))

\* C4 as amended: the same, with the last two lines written as
\* "speed_override = 0" and "sound = OFF".
C4_Scenario ==
    WriteOk =>
        /\ SectionOrder(out.lines)
        /\ IsScenario(ini) =>
               IsSubseq(ScenarioHead(ini.ai_module) \o <<"speed_override = 0", "sound = OFF">>,
                        Texts(out.lines))

C4_Witness == WriteOk /\ IsScenario(ini) /\ Len(out.lines) = 14

\* C5: in Managed mode a Host document has wait_for_min_players=N directly
\* followed by wait_for_max_players=N with N the player count, a map= line
\* iff a map was supplied, and no game= line; a Join document has
\* game=<game_name> and no map=, wait_for_min_players= or
\* wait_for_max_players= line.
C5_RoleKeys ==
    (WriteOk /\ ini.auto_menu.tag = "AutoMenu") =>
        LET am == ini.auto_menu
            cm == am.connect_mode
            ls == out.lines
        IN  IF cm.tag = "Host"
            THEN /\ \E i \in 1..(Len(ls) - 1) :
                        /\ Text(ls[i]) = "wait_for_min_players=" \o ToString(cm.player_count)
                        /\ Text(ls[i + 1]) = "wait_for_max_players=" \o ToString(cm.player_count)
                 /\ HasKeyLine(ls, "map") = (cm.map # None)
                 /\ cm.map # None => \E i \in 1..Len(ls) : Text(ls[i]) = "map=" \o cm.map[1]
                 /\ ~HasKeyLine(ls, "game")
            ELSE /\ \E i \in 1..Len(ls) : Text(ls[i]) = "game=" \o am.game_name
                 /\ ~HasKeyLine(ls, "map")
                 /\ ~HasKeyLine(ls, "wait_for_min_players")
                 /\ ~HasKeyLine(ls, "wait_for_max_players")

C5_Witness ==
    /\ WriteOk
    /\ ini.auto_menu.tag = "AutoMenu"
    /\ ini.auto_menu.connect_mode = Host(None, 8)
    /\ HasKeyLine(out.lines, "wait_for_max_players")

\* The lines after the [auto_menu] header, up to the next section header.
AfterAutoMenu(lines) ==
    LET a == CHOOSE i \in 1..Len(lines) : lines[i] = Section("auto_menu")
        b == CHOOSE j \in (a + 1)..Len(lines) :
                 /\ IsSectionLine(lines[j])
                 /\ \A k \in (a + 1)..(j - 1) : ~IsSectionLine(lines[k])
    IN  SubSeq(lines, a + 1, b - 1)

\* C6 as claimed: with AutoMenu::Unused no key/value line lies between the
\* [auto_menu] header and the next section header.
C6_UnusedNoKeysAsClaimed ==
    (WriteOk /\ ini.auto_menu.tag = "Unused") =>
        \A i \in 1..Len(AfterAutoMenu(out.lines)) : AfterAutoMenu(out.lines)[i].kind # "kv"

\* C6 as amended: with AutoMenu::Unused the only line between the
\* [auto_menu] header and the next section header is the fixed save_replay
\* line.
C6_UnusedOnlyReplay ==
    (WriteOk /\ ini.auto_menu.tag = "Unused") =>
        AfterAutoMenu(out.lines) = <<ReplayLine>>

C6_Witness ==
    /\ WriteOk
    /\ ini.auto_menu.tag = "Unused"
    /\ ini.tm_module # None
    /\ Len(out.lines) = 8

\* What C9 says of a finished write.
C9_Result ==
    wres.called =>
        LET stmts == WriteStmts(ini)
            f     == dest.failAt
        IN  IF f \in 1..Len(stmts)
            THEN /\ wres.ret = <<"Err", dest.err>>
                 /\ out.attempts = f
                 /\ out.lines = SubSeq(stmts, 1, f - 1)
            ELSE /\ wres.ret = <<"Ok">>
                 /\ out.attempts = Len(stmts)
                 /\ out.lines = stmts

\* C9: write returns exactly the error of the first failing line write and
\* attempts no line after it, returns Ok only when every line was written,
\* and leaves the game-table handle as it was.
C9_WriteFailure ==
    [][C9_Result' /\ (wres' # wres => game_table' = game_table)]_vars

C9_Witness ==
    /\ wres.called
    /\ wres.ret = <<"Err", "StorageFull">>
    /\ dest.failAt = 5
    /\ out.attempts = 5
    /\ game_table # None

====
